---- MODULE Spec2Model ----
(***************************************************************************)
(* Model of TextSearch_CompareChecker.py: the two scan handlers of the     *)
(* CompareChecker window, run_text_search and run_compare_check, over a    *)
(* folder of files.                                                        *)
(*                                                                         *)
(* Text is a sequence of one-character strings.  The marker phrase         *)
(* "Number of Observations with Some Compared Variables Unequal:" is one   *)
(* symbol: "N" as SAS prints it, "n" in any other letter case (the regular *)
(* expression is compiled with re.IGNORECASE).                             *)
(***************************************************************************)
EXTENDS Integers, Sequences, FiniteSets, TLC

\* ------------------------------------------------------------------ bounds

\* Largest number of files the walked folder tree holds.
MaxFiles == 2

\* ------------------------------------------------------------ text helpers

\* str.lower() on one character.
LowerChar(ch) ==
    CASE ch = "A" -> "a" [] ch = "D" -> "d" [] ch = "E" -> "e" [] ch = "F" -> "f"
      [] ch = "G" -> "g" [] ch = "L" -> "l" [] ch = "N" -> "n" [] ch = "O" -> "o"
      [] ch = "P" -> "p" [] ch = "S" -> "s" [] ch = "T" -> "t" [] ch = "X" -> "x"
      [] OTHER -> ch

\* str.lower()
Lower(s) == [k \in 1..Len(s) |-> LowerChar(s[k])]

\* Characters str.strip() removes and \s matches.
Whitespace == {" ", "\n", "\t"}

\* Characters \d matches.
Digits == {"0", "7"}

\* str.endswith(suffix)
EndsWith(s, suffix) ==
    /\ Len(suffix) <= Len(s)
    /\ SubSeq(s, Len(s) - Len(suffix) + 1, Len(s)) = suffix

\* needle in hay
Contains(hay, needle) ==
    \E p \in 0..(Len(hay) - Len(needle)) : SubSeq(hay, p + 1, p + Len(needle)) = needle

\* str.strip(): drop leading and trailing whitespace.
Strip(s) ==
    LET inks == {k \in 1..Len(s) : s[k] \notin Whitespace}
        lo   == CHOOSE k \in inks : \A m \in inks : k <= m
        hi   == CHOOSE k \in inks : \A m \in inks : m <= k
    IN  IF inks = {} THEN <<>> ELSE SubSeq(s, lo, hi)

\* "".join(parts) / "\n".join(parts)
RECURSIVE Join(_, _)
Join(parts, sep) ==
    IF parts = <<>> THEN <<>>
    ELSE IF Len(parts) = 1 THEN parts[1]
    ELSE parts[1] \o sep \o Join(Tail(parts), sep)

\* The combo box entries as the strings endswith() receives.
ExtChars(ext) ==
    CASE ext = ".sas" -> <<".", "s", "a", "s">>
      [] ext = ".log" -> <<".", "l", "o", "g">>
      [] ext = ".txt" -> <<".", "t", "x", "t">>
      [] ext = ".pdf" -> <<".", "p", "d", "f">>
      [] ext = ".lst" -> <<".", "l", "s", "t">>
      [] OTHER        -> <<>>

\* int(digits)
RECURSIVE ToInt(_)
ToInt(ds) ==
    IF ds = <<>> THEN 0
    ELSE 10 * ToInt(SubSeq(ds, 1, Len(ds) - 1))
         + (IF ds[Len(ds)] = "7" THEN 7 ELSE 0)

\* ------------------------------------------------------------------ files

\* A file of the walked tree:
\*   name  - its file name;
\*   err   - what reading it as text does: "none", "open" (open() raises) or
\*           "read" (the read raises after `lines` were yielded);
\*   lines - the lines open(path, 'r', errors='ignore') yields, terminators kept;
\*   fitz  - what PyMuPDF does with it: "ok", "open" (fitz.open raises) or
\*           "page" (fitz.open succeeds, get_text() of a page raises);
\*   pages - the page texts get_text() returns.
MkFile(name, err, lines, fitz, pages) ==
    [name |-> name, err |-> err, lines |-> lines, fitz |-> fitz, pages |-> pages]

F_sas == MkFile(<<"a", ".", "s", "a", "s">>, "none",
                << <<"E", "x", "\n">>, <<"x", "\n">>, <<" ", "e", " ", "\n">> >>,
                "open", <<>>)
F_TXT == MkFile(<<"b", ".", "T", "X", "T">>, "none",
                << <<"N", "0", "\n">>, <<"x", "E", " ", "N", "\n">>, <<"7", "\n">> >>,
                "open", <<>>)
F_log == MkFile(<<"c", ".", "l", "o", "g">>, "open",
                << <<"e", "\n">>, <<"N", " ", "0", "\n">> >>,
                "open", <<>>)
F_logRead == MkFile(<<"e", ".", "l", "o", "g">>, "read",
                << <<"x", "\n">>, <<"e", "X", "\n">> >>,
                "open", <<>>)
F_txtBlank == MkFile(<<"g", ".", "t", "x", "t">>, "none",
                << <<"\n">>, <<"x", "e">> >>,
                "open", <<>>)
F_lst0 == MkFile(<<"r", ".", "l", "s", "t">>, "none",
                << <<"e", "\n">>, <<"N", " ", " ", "0", "\n">> >>,
                "open", <<>>)
F_lst7 == MkFile(<<"s", ".", "l", "s", "t">>, "none",
                << <<"n", "\t", "0", "7", "\n">>, <<"N", " ", "0", "\n">> >>,
                "open", <<>>)
F_dat == MkFile(<<"d", ".", "d", "a", "t">>, "none",
                << <<"x", " ", "0", "\n">>, <<"N", " ", "x", "\n">> >>,
                "open", <<>>)
F_pdf == MkFile(<<"p", ".", "p", "d", "f">>, "none",
                << <<"x", "e", "\n">> >>,
                "ok", << <<"x", "N">>, <<"0", "0">> >>)
F_pdfPage == MkFile(<<"q", ".", "p", "d", "f">>, "none",
                << <<"x", "\n">> >>,
                "page", << <<"N", " ", "0">> >>)
F_pdfBad == MkFile(<<"u", ".", "p", "d", "f">>, "none",
                << <<"N", " ", "7", "\n">> >>,
                "open", <<>>)
F_PDF == MkFile(<<"v", ".", "P", "D", "F">>, "none",
                << <<"x", "\n">> >>,
                "ok", << <<"N", " ", "7">> >>)

\* Files the text search specification draws folders from.
SearchPool == {F_sas, F_TXT, F_log, F_logRead, F_txtBlank, F_lst0, F_pdf}

\* Files the comparison check specification draws folders from.
ComparePool == {F_TXT, F_log, F_lst0, F_lst7, F_dat,
                F_pdf, F_pdfPage, F_pdfBad, F_PDF}

\* Files the specification of both handlers draws folders from.
BothPool == {F_TXT, F_log}

\* Folder trees in os.walk order, files drawn from pool.
Folders(pool) == UNION {[1..n -> pool] : n \in 0..MaxFiles}

\* What QLineEdit search_input may hold.
SearchInputs == {<<>>, <<" ", "E", " ">>, <<"x", "e">>}

\* filetype_combo entries.
SearchExts == {".sas", ".log", ".txt", "All"}

\* compare_filetype entries.
CompareExts == {".pdf", ".lst", ".txt", "All"}

\* status_filter entries.
StatusFilters == {"All", "Passed", "Failed"}

\* ------------------------------------------------------------------ state

VARIABLES
    folder,           \* the files os.walk yields, in walk order (fixed)
    pc,               \* "idle", or the handler that is running: "search", "compare"
    i,                \* position of the walk loop in folder
    search_results,   \* QListWidget of the text search page
    search_status,    \* QLabel of the text search page
    compare_results,  \* QListWidget of the comparison page
    compare_status,   \* QLabel of the comparison page
    sl,               \* locals of the latest run_text_search call
    cl,               \* locals of the latest run_compare_check call
    lastOp,           \* the handler invoked last: "none", "search", "compare"
    visited,          \* history: walk positions the latest call's loop body reached
    scanned,          \* history: walk positions the latest search counted in total
    readAs,           \* history: how the latest check read each visited file
    before            \* history: the page as it was when the latest call began

vars == <<folder, pc, i, search_results, search_status, compare_results,
          compare_status, sl, cl, lastOp, visited, scanned, readAs, before>>

\* QLabel texts.
NoStatus == [text |-> "", a |-> 0, b |-> 0, c |-> 0]
InvalidFolderStatus == [text |-> "Invalid folder", a |-> 0, b |-> 0, c |-> 0]
FoundStatus(count, total) == [text |-> "Found", a |-> count, b |-> total, c |-> 0]
ScannedStatus(total, passed, failed) ==
    [text |-> "Scanned", a |-> total, b |-> passed, c |-> failed]

\* The history a call records as it begins: whether it repeats the call before
\* it (the same handler with the same widget values), whether the list held
\* items, and, for a repeat, the list and the label the earlier call left.
History(same, results, status) ==
    [same |-> same, filled |-> results # <<>>,
     results |-> IF same THEN results ELSE <<>>,
     status |-> IF same THEN status ELSE NoStatus]

InitWith(pool) ==
    /\ folder \in Folders(pool)
    /\ pc = "idle"
    /\ i = 1
    /\ search_results = <<>>
    /\ search_status = NoStatus
    /\ compare_results = <<>>
    /\ compare_status = NoStatus
    /\ sl = [ran |-> FALSE, folderOk |-> FALSE, input |-> <<>>, search_term |-> <<>>,
             ext |-> "All", count |-> 0, total |-> 0]
    /\ cl = [ran |-> FALSE, folderOk |-> FALSE, ext |-> "All", filter_status |-> "All",
             passed |-> 0, failed |-> 0, total |-> 0, content |-> <<>>, doc |-> 0]
    /\ lastOp = "none"
    /\ visited = {}
    /\ scanned = {}
    /\ readAs = <<>>
    /\ before = History(FALSE, <<>>, NoStatus)

\* QListWidget.clear()
ClearKeepsItems(items) == items
Clear(items) == <<>>

\* not os.path.isdir(folder)
NotADirectoryNever(folderOk) == FALSE
NotADirectory(folderOk) == ~folderOk

\* ------------------------------------------------------------ text search

\* ext != "All" and not file.lower().endswith(ext)
SearchExtRejects(ext, file) ==
    ext # "All" /\ ~EndsWith(Lower(file.name), ExtChars(ext))

\* any(file.lower().endswith(x) for x in [".sas", ".txt", ".log"])
SearchableAnyName(file) == TRUE
Searchable(file) ==
    \E x \in {".sas", ".txt", ".log"} : EndsWith(Lower(file.name), ExtChars(x))

\* search_term in line.lower()
LineMatchesCaseSensitive(search_term, line) == Contains(line, search_term)
LineMatches(search_term, line) == Contains(Lower(line), search_term)

\* QListWidgetItem(f"{file} [Line {i}]: {line.strip()}") with data (path, i);
\* the path is os.path.join(root, file) of the file at walk position k.
SearchItem(file, k, n, line) ==
    [file |-> file.name, line |-> n, text |-> Strip(line), path |-> k]

\* for i, line in enumerate(f, 1): the items added for lines n.. of the file.
RECURSIVE ScanLines(_, _, _, _)
ScanLines(search_term, file, k, n) ==
    IF n > Len(file.lines) THEN <<>>
    ELSE (IF LineMatches(search_term, file.lines[n])
          THEN <<SearchItem(file, k, n, file.lines[n])>>
          ELSE <<>>)
         \o ScanLines(search_term, file, k, n + 1)

\* run_text_search up to the walk: read the widgets, clear the list, zero the
\* counters, and return with the warning when the folder is no directory.
StartSearch(folderOk, input, ext) ==
    /\ pc = "idle"
    /\ sl' = [ran |-> TRUE, folderOk |-> folderOk, input |-> input,
              search_term |-> Lower(Strip(input)), ext |-> ext,
              count |-> 0, total |-> 0]
    /\ search_results' = Clear(search_results)
    /\ IF NotADirectory(folderOk)
       THEN /\ search_status' = InvalidFolderStatus
            /\ pc' = "idle"
       ELSE /\ search_status' = search_status
            /\ pc' = "search"
    /\ i' = 1
    /\ lastOp' = "search"
    /\ visited' = {}
    /\ scanned' = {}
    /\ readAs' = <<>>
    /\ before' = History(/\ lastOp = "search" /\ sl.ran /\ sl.folderOk = folderOk
                          /\ sl.input = input /\ sl.ext = ext,
                          search_results, search_status)
    /\ UNCHANGED <<folder, compare_results, compare_status, cl>>

\* One pass of the loop body of run_text_search, on the file at position i.
SearchFile ==
    /\ pc = "search"
    /\ i <= Len(folder)
    /\ LET file == folder[i]
           hits == IF file.err = "open" THEN <<>>
                   ELSE ScanLines(sl.search_term, file, i, 1)
       IN  IF SearchExtRejects(sl.ext, file) \/ ~Searchable(file)
           THEN UNCHANGED <<sl, search_results, scanned>>
           ELSE /\ sl' = [sl EXCEPT !.total = @ + 1, !.count = @ + Len(hits)]
                /\ search_results' = search_results \o hits
                /\ scanned' = scanned \cup {i}
    /\ visited' = visited \cup {i}
    /\ i' = i + 1
    /\ UNCHANGED <<folder, pc, search_status, compare_results, compare_status,
                   cl, lastOp, readAs, before>>

\* After the walk: the summary label, and return.
FinishSearch ==
    /\ pc = "search"
    /\ i > Len(folder)
    /\ search_status' = FoundStatus(sl.count, sl.total)
    /\ pc' = "idle"
    /\ UNCHANGED <<folder, i, search_results, compare_results, compare_status,
                   sl, cl, lastOp, visited, scanned, readAs, before>>

NextSearch ==
    \/ \E folderOk \in BOOLEAN, input \in SearchInputs, ext \in SearchExts :
          StartSearch(folderOk, input, ext)
    \/ SearchFile
    \/ FinishSearch

InitSearch == InitWith(SearchPool)

SpecSearch == InitSearch /\ [][NextSearch]_vars

\* ------------------------------------------------------- comparison check

\* ext != "All" and not file.lower().endswith(ext)
CompareExtRejects(ext, file) ==
    ext # "All" /\ ~EndsWith(Lower(file.name), ExtChars(ext))

\* file.endswith(".pdf")
IsPdfName(file) == EndsWith(file.name, ExtChars(".pdf"))

\* The try block: what reading the file at walk position k does.
\*   raised  - an exception reached the except clause;
\*   content - the value assigned to content (when nothing was raised);
\*   doc     - the walk position of the open Document the local doc refers to
\*             afterwards, 0 when it refers to no open Document;
\*   how     - the branch taken.
\* A Document is closed by doc.close(), or by its finaliser once the local doc
\* is rebound by a later fitz.open() or the handler returns.
ReadContent(file, k, doc) ==
    IF IsPdfName(file)
    THEN CASE file.fitz = "open" ->
                [raised |-> TRUE, content |-> <<>>, doc |-> doc, how |-> "pdf"]
           [] file.fitz = "page" ->
                [raised |-> TRUE, content |-> <<>>, doc |-> k, how |-> "pdf"]
           [] OTHER ->
                [raised |-> FALSE, content |-> Join(file.pages, <<"\n">>),
                 doc |-> 0, how |-> "pdf"]
    ELSE IF file.err = "none"
         THEN [raised |-> FALSE, content |-> Join(file.lines, <<>>),
               doc |-> doc, how |-> "text"]
         ELSE [raised |-> TRUE, content |-> <<>>, doc |-> doc, how |-> "text"]

\* except: continue
SkippedNever(read) == FALSE
Skipped(read) == read.raised

\* The last position of the run of characters of set that starts at from
\* (from - 1 when content[from] is not in set).
RECURSIVE RunEnd(_, _, _)
RunEnd(content, from, set) ==
    IF from <= Len(content) /\ content[from] \in set
    THEN RunEnd(content, from + 1, set)
    ELSE from - 1

\* re.search(r"<marker phrase>\s+(\d+)", content, re.IGNORECASE): the leftmost
\* match and its group 1.
RegexSearch(content) ==
    LET starts == {p \in 1..Len(content) :
                      /\ LowerChar(content[p]) = "n"
                      /\ RunEnd(content, p + 1, Whitespace) > p
                      /\ RunEnd(content, RunEnd(content, p + 1, Whitespace) + 1, Digits)
                           > RunEnd(content, p + 1, Whitespace)}
        p0     == CHOOSE p \in starts : \A r \in starts : p <= r
        ws     == RunEnd(content, p0 + 1, Whitespace)
    IN  IF starts = {} THEN [found |-> FALSE, group |-> <<>>]
        ELSE [found |-> TRUE,
              group |-> SubSeq(content, ws + 1, RunEnd(content, ws + 1, Digits))]

\* status = "Passed" if unequal == 0 else "Failed"
StatusOfSwapped(unequal) == IF unequal = 0 THEN "Failed" ELSE "Passed"
StatusOf(unequal) == IF unequal = 0 THEN "Passed" ELSE "Failed"

\* filter_status == "All" or filter_status == status
Displayed(filter_status, status) == filter_status = "All" \/ filter_status = status

\* QListWidgetItem(f"{file}: {status}") with data (path, None) and its background.
CompareItem(file, k, status) ==
    [file |-> file.name, status |-> status, path |-> k,
     color |-> IF status = "Passed" THEN "#c6f6c6" ELSE "#f6c6c6"]

\* if status == "Passed": passed += 1 / else: failed += 1 / total += 1
AddCountsFilteredOnly(locals, status) ==
    IF Displayed(locals.filter_status, status)
    THEN [locals EXCEPT !.passed = IF status = "Passed" THEN @ + 1 ELSE @,
                        !.failed = IF status = "Passed" THEN @ ELSE @ + 1,
                        !.total = @ + 1]
    ELSE locals
AddCounts(locals, status) ==
    [locals EXCEPT !.passed = IF status = "Passed" THEN @ + 1 ELSE @,
                   !.failed = IF status = "Passed" THEN @ ELSE @ + 1,
                   !.total = @ + 1]

\* run_compare_check up to the walk: read the widgets, clear the list, zero the
\* counters, and return with the warning when the folder is no directory.
StartCompare(folderOk, ext, filter_status) ==
    /\ pc = "idle"
    /\ cl' = [ran |-> TRUE, folderOk |-> folderOk, ext |-> ext,
              filter_status |-> filter_status, passed |-> 0, failed |-> 0,
              total |-> 0, content |-> <<>>, doc |-> 0]
    /\ compare_results' = Clear(compare_results)
    /\ IF NotADirectory(folderOk)
       THEN /\ compare_status' = InvalidFolderStatus
            /\ pc' = "idle"
       ELSE /\ compare_status' = compare_status
            /\ pc' = "compare"
    /\ i' = 1
    /\ lastOp' = "compare"
    /\ visited' = {}
    /\ scanned' = {}
    /\ readAs' = <<>>
    /\ before' = History(/\ lastOp = "compare" /\ cl.ran /\ cl.folderOk = folderOk
                          /\ cl.ext = ext /\ cl.filter_status = filter_status,
                          compare_results, compare_status)
    /\ UNCHANGED <<folder, search_results, search_status, sl>>

\* One pass of the loop body of run_compare_check, on the file at position i.
CompareFile ==
    /\ pc = "compare"
    /\ i <= Len(folder)
    /\ LET file    == folder[i]
           read    == ReadContent(file, i, cl.doc)
           content == IF read.raised THEN cl.content ELSE read.content
           match   == RegexSearch(content)
           status  == StatusOf(ToInt(match.group))
           held    == [cl EXCEPT !.content = content, !.doc = read.doc]
       IN  IF CompareExtRejects(cl.ext, file)
           THEN /\ readAs' = Append(readAs, "filtered")
                /\ UNCHANGED <<cl, compare_results>>
           ELSE /\ readAs' = Append(readAs, read.how)
                /\ IF Skipped(read)
                   THEN /\ cl' = [cl EXCEPT !.doc = read.doc]
                        /\ UNCHANGED compare_results
                   ELSE IF match.found
                   THEN /\ cl' = AddCounts(held, status)
                        /\ compare_results' =
                              IF Displayed(cl.filter_status, status)
                              THEN Append(compare_results, CompareItem(file, i, status))
                              ELSE compare_results
                   ELSE /\ cl' = held
                        /\ UNCHANGED compare_results
    /\ visited' = visited \cup {i}
    /\ i' = i + 1
    /\ UNCHANGED <<folder, pc, search_results, search_status, compare_status,
                   sl, lastOp, scanned, before>>

\* After the walk: the summary label, and return (the locals content and doc die).
FinishCompare ==
    /\ pc = "compare"
    /\ i > Len(folder)
    /\ compare_status' = ScannedStatus(cl.total, cl.passed, cl.failed)
    /\ cl' = [cl EXCEPT !.content = <<>>, !.doc = 0]
    /\ pc' = "idle"
    /\ UNCHANGED <<folder, i, search_results, search_status, compare_results,
                   sl, lastOp, visited, scanned, readAs, before>>

NextCompare ==
    \/ \E folderOk \in BOOLEAN, ext \in CompareExts, filter_status \in StatusFilters :
          StartCompare(folderOk, ext, filter_status)
    \/ CompareFile
    \/ FinishCompare

InitCompare == InitWith(ComparePool)

SpecCompare == InitCompare /\ [][NextCompare]_vars

\* ----------------------------------------------------------- both handlers

Init == InitWith(BothPool)

Next == NextSearch \/ NextCompare

Spec == Init /\ [][Next]_vars

\* ------------------------------------------------- reference definitions

\* Walk positions the loop body has completed in the latest call.
Done == 1..(i - 1)

\* The text search admits the file at k: its lowercase name ends with the
\* chosen extension (any, under "All") and with one of the three fixed ones.
InFixedSet(k) ==
    \/ EndsWith(Lower(folder[k].name), <<".", "s", "a", "s">>)
    \/ EndsWith(Lower(folder[k].name), <<".", "t", "x", "t">>)
    \/ EndsWith(Lower(folder[k].name), <<".", "l", "o", "g">>)
InChosenExt(ext, k) ==
    ext = "All" \/ EndsWith(Lower(folder[k].name), ExtChars(ext))

\* The comparison check fails to extract the text of the file at k.
ExtractionFails(k) ==
    IF EndsWith(folder[k].name, <<".", "p", "d", "f">>)
    THEN folder[k].fitz # "ok"
    ELSE folder[k].err # "none"

\* The text the comparison check extracts from the file at k.
ExtractedText(k) ==
    IF EndsWith(folder[k].name, <<".", "p", "d", "f">>)
    THEN Join(folder[k].pages, <<"\n">>)
    ELSE Join(folder[k].lines, <<>>)

\* The comparison check with extension filter ext classifies the file at k.
Classified(ext, k) ==
    /\ InChosenExt(ext, k)
    /\ ~ExtractionFails(k)
    /\ RegexSearch(ExtractedText(k)).found

\* The unequal count captured from the file at k.
Unequal(k) == ToInt(RegexSearch(ExtractedText(k)).group)

\* Walk positions of the displayed comparison items, in display order.
ShownPaths == [n \in 1..Len(compare_results) |-> compare_results[n].path]

\* The positions 1..n in order.
Upto(n) == [k \in 1..n |-> k]

\* ----------------------------------------------------------------- claims

\* C1: in the comparison check the summary counts passed, failed and total do
\* not depend on the status filter: they count the classified files, and the
\* filter only selects the displayed ones; the displayed list is the
\* sub-sequence, in scan order, of the classified files whose status equals the
\* filter (all of them under "All").
C1_FilterSelectsDisplayOnly ==
    (lastOp = "compare" /\ cl.folderOk) =>
        /\ cl.total = Cardinality({k \in Done : Classified(cl.ext, k)})
        /\ cl.passed = Cardinality({k \in Done : Classified(cl.ext, k)
                                                  /\ StatusOf(Unequal(k)) = "Passed"})
        /\ cl.failed = Cardinality({k \in Done : Classified(cl.ext, k)
                                                  /\ StatusOf(Unequal(k)) = "Failed"})
        /\ ShownPaths = SelectSeq(Upto(i - 1),
                            LAMBDA k : /\ Classified(cl.ext, k)
                                       /\ \/ cl.filter_status = "All"
                                          \/ cl.filter_status = StatusOf(Unequal(k)))
        /\ \A n \in 1..Len(compare_results) :
              compare_results[n].status = StatusOf(Unequal(compare_results[n].path))
        /\ pc = "idle" =>
              compare_status = ScannedStatus(cl.total, cl.passed, cl.failed)

\* C1 witness: Scenario C, a finished check with filter "Passed" over one
\* passed and one failed file displays one item and counts both.
C1_Witness ==
    /\ pc = "idle" /\ lastOp = "compare" /\ cl.folderOk
    /\ cl.filter_status = "Passed"
    /\ cl.passed = 1 /\ cl.failed = 1 /\ cl.total = 2
    /\ Len(compare_results) = 1

\* C3: in the comparison check a file whose extraction or read fails adds no
\* item and leaves passed, failed and total unchanged, the walk goes on to the
\* next file, and a finished check has visited every file of the walk.
C3_FailedFileSkipped ==
    /\ [](lastOp = "compare" /\ cl.folderOk =>
            /\ \A n \in 1..Len(compare_results) :
                  ~ExtractionFails(compare_results[n].path)
            /\ visited = Done
            /\ pc = "idle" => visited = 1..Len(folder))
    /\ [][(pc = "compare" /\ i <= Len(folder) /\ InChosenExt(cl.ext, i)
             /\ ExtractionFails(i)) =>
            /\ compare_results' = compare_results
            /\ cl'.passed = cl.passed /\ cl'.failed = cl.failed /\ cl'.total = cl.total
            /\ pc' = "compare" /\ i' = i + 1]_vars

\* C3 witness: Scenario D, a finished check whose first file failed to be read
\* and whose second file was classified.
C3_Witness ==
    /\ pc = "idle" /\ lastOp = "compare" /\ cl.folderOk
    /\ Len(folder) = 2 /\ InChosenExt(cl.ext, 1) /\ ExtractionFails(1)
    /\ cl.total = 1 /\ ShownPaths = <<2>>

\* C8: throughout a comparison check total = passed + failed, passed counts the
\* classified files whose captured count is 0 and failed those whose count is
\* not 0; an item is Passed iff its count is 0, and a file without the marker
\* phrase is counted in none of the three.
C8_CountsPartition ==
    lastOp = "compare" =>
        /\ cl.total = cl.passed + cl.failed
        /\ cl.passed = Cardinality({k \in Done : Classified(cl.ext, k) /\ Unequal(k) = 0})
        /\ cl.failed = Cardinality({k \in Done : Classified(cl.ext, k) /\ Unequal(k) # 0})
        /\ \A n \in 1..Len(compare_results) :
              compare_results[n].status = "Passed" <=> Unequal(compare_results[n].path) = 0

\* C8 witness: a check in progress that has counted one file and passed over
\* a readable file without the marker phrase.
C8_Witness ==
    /\ pc = "compare" /\ cl.total = 1 /\ Len(compare_results) = 1
    /\ \E k \in Done : /\ InChosenExt(cl.ext, k) /\ ~ExtractionFails(k)
                       /\ ~RegexSearch(ExtractedText(k)).found

\* C9: in the comparison check no document handle of a file is open once the
\* processing of that file has ended, whether it succeeded or failed.
C9_NoHandleLeftOpen == lastOp = "compare" => cl.doc = 0

\* C10: in the comparison check every file that the ".pdf" extension filter
\* admits (lowercase name ends with .pdf) is read as a paginated document, and
\* only the other files are read as plain text.
C10_PdfFilterAndMethodAgree ==
    lastOp = "compare" =>
        \A k \in 1..Len(readAs) :
            readAs[k] # "filtered" =>
                (readAs[k] = "pdf" <=> EndsWith(Lower(folder[k].name), ExtChars(".pdf")))

\* C2: in the text search a file that cannot be opened adds no item and is
\* counted neither in matchesFound nor in filesScanned.
C2_UnopenableNotCounted ==
    lastOp = "search" =>
        /\ \A n \in 1..Len(search_results) : folder[search_results[n].path].err # "open"
        /\ sl.count = Len(search_results)
        /\ sl.total = Cardinality({k \in Done : /\ InChosenExt(sl.ext, k) /\ InFixedSet(k)
                                                /\ folder[k].err # "open"})

\* C4: in the text search every file counted in filesScanned and every file
\* that produces a match has a lowercase name ending with .sas, .txt or .log,
\* for every extension filter; under a specific extension the lowercase name
\* also ends with that extension.
C4_OnlyFixedExtensions ==
    lastOp = "search" =>
        /\ sl.total = Cardinality(scanned)
        /\ \A k \in scanned : InFixedSet(k) /\ InChosenExt(sl.ext, k)
        /\ \A n \in 1..Len(search_results) : search_results[n].path \in scanned

\* C4 witness: a finished search under "All" that walked a .pdf file and a
\* .TXT file and counted only the latter.
C4_Witness ==
    /\ pc = "idle" /\ lastOp = "search" /\ sl.folderOk /\ sl.ext = "All"
    /\ \E k \in visited \ scanned : folder[k] = F_pdf
    /\ \E k \in scanned : folder[k] = F_TXT
    /\ sl.total = 1 /\ sl.count >= 1

\* The text search displays an item for line n of the file at k.
HasItem(k, n) ==
    \E m \in 1..Len(search_results) :
        search_results[m].path = k /\ search_results[m].line = n

\* C5: in the text search a line of a scanned file produces a match iff its
\* lowercase contains the lowercase of the trimmed search term; a match carries
\* the 1-based line number, the matches of a file come in increasing line
\* order, matchesFound is the number of matches, and an empty term matches
\* every line.
C5_CaseInsensitiveLineMatch ==
    lastOp = "search" =>
        /\ sl.count = Len(search_results)
        /\ \A k \in scanned : folder[k].err # "open" =>
              \A n \in 1..Len(folder[k].lines) :
                 /\ HasItem(k, n) <=>
                       Contains(Lower(folder[k].lines[n]), Lower(Strip(sl.input)))
                 /\ Strip(sl.input) = <<>> => HasItem(k, n)
        /\ \A m \in 1..Len(search_results) :
              LET item == search_results[m]
              IN  /\ item.path \in scanned
                  /\ item.line \in 1..Len(folder[item.path].lines)
                  /\ item.text = Strip(folder[item.path].lines[item.line])
        /\ \A a, b \in 1..Len(search_results) :
              a < b => \/ search_results[a].path < search_results[b].path
                       \/ /\ search_results[a].path = search_results[b].path
                          /\ search_results[a].line < search_results[b].line

\* C5 witness: Scenario A, a finished search for " E " in a.sas finds the
\* lines "Ex" and " e " (1 and 3) and not the line "x".
C5_Witness ==
    /\ pc = "idle" /\ lastOp = "search" /\ sl.folderOk
    /\ sl.input = <<" ", "E", " ">> /\ folder = <<F_sas>>
    /\ HasItem(1, 1) /\ ~HasItem(1, 2) /\ HasItem(1, 3)
    /\ search_status = FoundStatus(2, 1)

\* C6: a call of either handler that repeats the call before it (unchanged
\* folder, unchanged widget values) leaves the same list and the same summary;
\* every call starts from an empty list and zeroed counters.
C6_RepeatedRunIdentical ==
    /\ (pc = "idle" /\ lastOp = "search" /\ before.same) =>
          search_results = before.results /\ search_status = before.status
    /\ (pc = "idle" /\ lastOp = "compare" /\ before.same) =>
          compare_results = before.results /\ compare_status = before.status
    /\ (pc = "search" /\ i = 1) =>
          search_results = <<>> /\ sl.count = 0 /\ sl.total = 0
    /\ (pc = "compare" /\ i = 1) =>
          compare_results = <<>> /\ cl.passed = 0 /\ cl.failed = 0 /\ cl.total = 0

\* C6 witness: a repeated search has finished over a list that held the
\* earlier call's matches and displays matches.
C6_Witness ==
    /\ pc = "idle" /\ lastOp = "search" /\ sl.folderOk
    /\ before.same /\ before.filled
    /\ Len(search_results) >= 2

\* C7: a call of either handler on a folder that is no directory returns
\* before the walk: no file is visited, the list is empty afterwards and the
\* label shows the invalid-folder warning.
C7_InvalidFolderAborts ==
    /\ (lastOp = "search" /\ ~sl.folderOk) =>
          /\ pc = "idle" /\ visited = {} /\ scanned = {}
          /\ search_results = <<>> /\ search_status = InvalidFolderStatus
    /\ (lastOp = "compare" /\ ~cl.folderOk) =>
          /\ pc = "idle" /\ visited = {} /\ readAs = <<>>
          /\ compare_results = <<>> /\ compare_status = InvalidFolderStatus

\* C7 witness: the comparison check has returned on an invalid folder over a
\* list an earlier check had filled.
C7_Witness ==
    /\ pc = "idle" /\ lastOp = "compare" /\ ~cl.folderOk
    /\ before.filled /\ compare_results = <<>>
    /\ compare_status = InvalidFolderStatus

====
